---- MODULE Spec2Model ----
(***************************************************************************)
(* Model of nix::sys::pthread (src/src/sys/pthread.rs): the MutexAttr      *)
(* attribute object, the Protocol enumeration and the Mutex wrapper around *)
(* the native pthread mutex, together with the native lock state the       *)
(* wrappers act on (Linux futex-based pthread mutexes).                    *)
(***************************************************************************)
EXTENDS Integers, FiniteSets, Sequences, TLC

\* ------------------------------------------------------------------ bounds

\* Number of participants (threads / processes) that use the one Mutex.
NumParticipants == 3

Participants == 1..NumParticipants

\* Largest descriptor number that is offered to an Epoll instance.
MaxFd == 2

\* The open descriptors that can be registered.
Fds == 0..MaxFd

\* ------------------------------------------------------- native constants

PTHREAD_PROCESS_PRIVATE == 0
PTHREAD_PROCESS_SHARED == 1
PTHREAD_MUTEX_STALLED == 0
PTHREAD_MUTEX_ROBUST == 1
PTHREAD_PRIO_NONE == 0
PTHREAD_PRIO_INHERIT == 1
PTHREAD_PRIO_PROTECT == 2

EPERM == 1
ENOENT == 2
ENOMEM == 12
EFAULT == 14
EBUSY == 16
EEXIST == 17
EINVAL == 22
ENOTSUP == 95
EOWNERDEAD == 130
ENOTRECOVERABLE == 131

\* ----------------------------------------------------------- result values

\* nix::Result<T>: Ok carries a value (written as its Rust literal), Err an
\* errno code.
Ok(v) == [tag |-> "Ok", val |-> v, err |-> 0]
Err(e) == [tag |-> "Err", val |-> "", err |-> e]

\* A panic (unwrap() of an Err, a failed assertion) instead of a returned value.
Panic(e) == [tag |-> "Panic", val |-> "", err |-> e]

BoolStr(b) == IF b THEN "true" ELSE "false"

\* Errno::result applied to the integer a native pthread call returned.
ErrnoResult(code) == IF code = 0 THEN Ok("0") ELSE Err(code)

\* Result::map(drop): forget the Ok value, keep an Err.
MapDrop(r) == IF r.tag = "Ok" THEN Ok("()") ELSE r

\* Result::unwrap(): the Ok value, or a panic.
Unwrap(r) == IF r.tag = "Ok" THEN r ELSE Panic(r.err)

\* ----------------------------------------------------------------- Protocol

Protocols == {"None", "Inherit", "Protect"}

\* `protocol as i32`
ProtocolAsI32(p) ==
    CASE p = "None" -> PTHREAD_PRIO_NONE
      [] p = "Inherit" -> PTHREAD_PRIO_INHERIT
      [] p = "Protect" -> PTHREAD_PRIO_PROTECT

\* From<i32> with the Inherit and Protect arms exchanged.
ProtocolFromSwapped(x) ==
    CASE x = PTHREAD_PRIO_NONE -> "None"
      [] x = PTHREAD_PRIO_INHERIT -> "Protect"
      [] x = PTHREAD_PRIO_PROTECT -> "Inherit"
      [] OTHER -> "unreachable"

\* impl From<i32> for Protocol; any other integer hits unreachable!().
ProtocolFrom(x) ==
    CASE x = PTHREAD_PRIO_NONE -> "None"
      [] x = PTHREAD_PRIO_INHERIT -> "Inherit"
      [] x = PTHREAD_PRIO_PROTECT -> "Protect"
      [] OTHER -> "unreachable"

\* ------------------------------------------------------------------- state

VARIABLES
    attr,          \* the MutexAttr object: native pthread_mutexattr_t and its lifetime
    mutex,         \* the Mutex object: native pthread_mutex_t and its lifetime
    pc,            \* per participant: "idle", "blocked" (in lock()), "woken", "dead"
    holds,         \* per participant: got Ok(())/Ok(true) and has not called unlock() since
    last,          \* the last completed operation: name, caller, native calls, code, result
    panicked,      \* an unwrap()/assertion aborted the program
    foreignUnlock, \* history: some unlock() released a lock its caller did not own
    epoll          \* the Epoll instance: its interest set and its last two operations

vars == <<attr, mutex, pc, holds, last, panicked, foreignUnlock, epoll>>

\* The native attribute values pthread_mutexattr_init sets (glibc/musl on Linux).
AttrDefaults ==
    [pshared |-> PTHREAD_PROCESS_PRIVATE,
     robust |-> PTHREAD_MUTEX_STALLED,
     protocol |-> PTHREAD_PRIO_NONE]

\* Every attribute triple a pthread_mutexattr_t can hold.
AttrKinds ==
    [pshared : {PTHREAD_PROCESS_PRIVATE, PTHREAD_PROCESS_SHARED},
     robust : {PTHREAD_MUTEX_STALLED, PTHREAD_MUTEX_ROBUST},
     protocol : {PTHREAD_PRIO_NONE, PTHREAD_PRIO_INHERIT, PTHREAD_PRIO_PROTECT}]

NoAttr == [state |-> "none", kind |-> AttrDefaults]

\* A finalized attribute object: its contents are no longer meaningful.
Destroyed == [state |-> "destroyed", kind |-> AttrDefaults]

NoMutex ==
    [state |-> "Uninitialized", placement |-> "none", kind |-> AttrDefaults,
     given |-> FALSE, askedShared |-> FALSE, owner |-> {}, health |-> "ok"]

\* An epoll operation as recorded: the interface used, the EpollOp, the
\* descriptor, whether an event was supplied, the native calls made, the
\* error code and the result.
EpollRecord(api, op, fd, event, native, code, ret) ==
    [api |-> api, op |-> op, fd |-> fd, event |-> event, native |-> native,
     code |-> code, ret |-> ret]

NoEpollOp == EpollRecord("none", "none", 0, FALSE, <<>>, 0, Ok("()"))

\* No Epoll instance exists.
NoEpoll == [open |-> FALSE, interest |-> {}, last |-> NoEpollOp, prev |-> NoEpollOp]

\* `waited`: the operation slept in the native call before it returned.
Record(op, who, native, code, ret) ==
    [op |-> op, who |-> who, native |-> native, code |-> code, ret |-> ret,
     waited |-> FALSE]

Init ==
    /\ attr = NoAttr
    /\ mutex = NoMutex
    /\ pc = [t \in Participants |-> "idle"]
    /\ holds = [t \in Participants |-> FALSE]
    /\ last = Record("none", 0, <<>>, 0, Ok("()"))
    /\ panicked = FALSE
    /\ foreignUnlock = FALSE
    /\ epoll = NoEpoll

\* The attribute object is configured before the mutex is constructed.
Configuring == ~panicked /\ mutex.state = "Uninitialized"

\* -------------------------------------------------------------- MutexAttr

\* MutexAttr::new that also marks the attribute process-shared.
MutexAttrNewShared ==
    /\ Configuring
    /\ attr.state # "live"
    /\ \E code \in {0, ENOMEM} :
         LET r == ErrnoResult(code) IN
         /\ attr' = IF r.tag = "Ok"
                    THEN [state |-> "live",
                          kind |-> [AttrDefaults EXCEPT
                                       !.pshared = PTHREAD_PROCESS_SHARED]]
                    ELSE attr
         /\ last' = Record("MutexAttr::new", 0, <<"pthread_mutexattr_init">>, code,
                           IF r.tag = "Ok" THEN Ok("MutexAttr") ELSE r)
    /\ UNCHANGED <<mutex, pc, holds, panicked, foreignUnlock, epoll>>

\* MutexAttr::new: pthread_mutexattr_init, `?` on its result.
MutexAttrNew ==
    /\ Configuring
    /\ attr.state # "live"
    /\ \E code \in {0, ENOMEM} :
         LET r == ErrnoResult(code) IN
         /\ attr' = IF r.tag = "Ok"
                    THEN [state |-> "live", kind |-> AttrDefaults]
                    ELSE attr
         /\ last' = Record("MutexAttr::new", 0, <<"pthread_mutexattr_init">>, code,
                           IF r.tag = "Ok" THEN Ok("MutexAttr") ELSE r)
    /\ UNCHANGED <<mutex, pc, holds, panicked, foreignUnlock, epoll>>

\* get_shared comparing against the wrong constant.
GetSharedResultPrivate(a) == Ok(BoolStr(a.kind.pshared = PTHREAD_PROCESS_PRIVATE))

\* get_shared: pthread_mutexattr_getpshared, then `init == PTHREAD_PROCESS_SHARED`.
GetSharedResult(a) == Ok(BoolStr(a.kind.pshared = PTHREAD_PROCESS_SHARED))

\* get_robust: pthread_mutexattr_getrobust, then `init == PTHREAD_MUTEX_ROBUST`.
GetRobustResult(a) == Ok(BoolStr(a.kind.robust = PTHREAD_MUTEX_ROBUST))

\* get_protocol: pthread_mutexattr_getprotocol, then Protocol::from(init).
GetProtocolResult(a) == Ok(ProtocolFrom(a.kind.protocol))

get_shared ==
    /\ Configuring
    /\ attr.state = "live"
    /\ last' = Record("get_shared", 0, <<"pthread_mutexattr_getpshared">>, 0,
                      GetSharedResult(attr))
    /\ UNCHANGED <<attr, mutex, pc, holds, panicked, foreignUnlock, epoll>>

get_robust ==
    /\ Configuring
    /\ attr.state = "live"
    /\ last' = Record("get_robust", 0, <<"pthread_mutexattr_getrobust">>, 0,
                      GetRobustResult(attr))
    /\ UNCHANGED <<attr, mutex, pc, holds, panicked, foreignUnlock, epoll>>

get_protocol ==
    /\ Configuring
    /\ attr.state = "live"
    /\ last' = Record("get_protocol", 0, <<"pthread_mutexattr_getprotocol">>, 0,
                      GetProtocolResult(attr))
    /\ UNCHANGED <<attr, mutex, pc, holds, panicked, foreignUnlock, epoll>>

\* The integer set_shared hands to pthread_mutexattr_setpshared.
SharedArg(shared) ==
    IF shared THEN PTHREAD_PROCESS_SHARED ELSE PTHREAD_PROCESS_PRIVATE

\* The integer set_robust hands to pthread_mutexattr_setrobust.
RobustArg(robust) ==
    IF robust THEN PTHREAD_MUTEX_ROBUST ELSE PTHREAD_MUTEX_STALLED

\* A native setter stores the value and returns 0, or rejects the mode
\* (ENOTSUP) and stores nothing.
set_shared(shared) ==
    /\ Configuring
    /\ attr.state = "live"
    /\ \E code \in {0, ENOTSUP} :
         /\ attr' = IF code = 0
                    THEN [attr EXCEPT !.kind.pshared = SharedArg(shared)]
                    ELSE attr
         /\ last' = Record("set_shared", 0, <<"pthread_mutexattr_setpshared">>, code,
                           MapDrop(ErrnoResult(code)))
    /\ UNCHANGED <<mutex, pc, holds, panicked, foreignUnlock, epoll>>

\* set_robust rebuilding the attribute from the defaults.
set_robustResetsOthers(robust) ==
    /\ Configuring
    /\ attr.state = "live"
    /\ \E code \in {0, ENOTSUP} :
         /\ attr' = IF code = 0
                    THEN [attr EXCEPT !.kind =
                             [AttrDefaults EXCEPT !.robust = RobustArg(robust)]]
                    ELSE attr
         /\ last' = Record("set_robust", 0, <<"pthread_mutexattr_setrobust">>, code,
                           MapDrop(ErrnoResult(code)))
    /\ UNCHANGED <<mutex, pc, holds, panicked, foreignUnlock, epoll>>

set_robust(robust) ==
    /\ Configuring
    /\ attr.state = "live"
    /\ \E code \in {0, ENOTSUP} :
         /\ attr' = IF code = 0
                    THEN [attr EXCEPT !.kind.robust = RobustArg(robust)]
                    ELSE attr
         /\ last' = Record("set_robust", 0, <<"pthread_mutexattr_setrobust">>, code,
                           MapDrop(ErrnoResult(code)))
    /\ UNCHANGED <<mutex, pc, holds, panicked, foreignUnlock, epoll>>

set_protocol(protocol) ==
    /\ Configuring
    /\ attr.state = "live"
    /\ \E code \in {0, ENOTSUP} :
         /\ attr' = IF code = 0
                    THEN [attr EXCEPT !.kind.protocol = ProtocolAsI32(protocol)]
                    ELSE attr
         /\ last' = Record("set_protocol", 0, <<"pthread_mutexattr_setprotocol">>, code,
                           MapDrop(ErrnoResult(code)))
    /\ UNCHANGED <<mutex, pc, holds, panicked, foreignUnlock, epoll>>

\* impl Default for MutexAttr: new().unwrap(), then (debug builds only)
\* debug_assert_eq!(mutex_attr.get_shared(), Ok(true)).
MutexAttrDefault ==
    /\ Configuring
    /\ attr.state # "live"
    /\ \E code \in {0, ENOMEM}, debug \in BOOLEAN :
         LET made == [state |-> "live", kind |-> AttrDefaults]
             asserted == GetSharedResult(made) = Ok("true")
         IN
         IF ErrnoResult(code).tag = "Err"
         THEN /\ panicked' = TRUE
              /\ attr' = attr
              /\ last' = Record("MutexAttr::default", 0, <<"pthread_mutexattr_init">>,
                                code, Panic(code))
         ELSE /\ attr' = made
              /\ panicked' = (debug /\ ~asserted)
              /\ last' = Record("MutexAttr::default", 0,
                                IF debug
                                THEN <<"pthread_mutexattr_init",
                                       "pthread_mutexattr_getpshared">>
                                ELSE <<"pthread_mutexattr_init">>,
                                code,
                                IF debug /\ ~asserted THEN Panic(0) ELSE Ok("MutexAttr"))
    /\ UNCHANGED <<mutex, pc, holds, foreignUnlock, epoll>>

\* impl Drop for MutexAttr with the failure of pthread_mutexattr_destroy
\* swallowed instead of unwrapped.
MutexAttrDropSilent ==
    /\ attr.state = "live"
    /\ \E code \in {0, EINVAL} :
         /\ attr' = Destroyed
         /\ panicked' = panicked
         /\ last' = Record("MutexAttr::drop", 0, <<"pthread_mutexattr_destroy">>, code,
                           Ok("()"))
    /\ UNCHANGED <<mutex, pc, holds, foreignUnlock, epoll>>

\* impl Drop for MutexAttr that leaves the object to be dropped again.
MutexAttrDropTwice ==
    /\ attr.state = "live"
    /\ \E code \in {0, EINVAL} :
         /\ attr' = attr
         /\ panicked' = (panicked \/ ErrnoResult(code).tag = "Err")
         /\ last' = Record("MutexAttr::drop", 0, <<"pthread_mutexattr_destroy">>, code,
                           Unwrap(ErrnoResult(code)))
    /\ UNCHANGED <<mutex, pc, holds, foreignUnlock, epoll>>

\* impl Drop for MutexAttr: pthread_mutexattr_destroy, unwrap() on its result.
\* Runs when the owning scope is left, by return or by an unwinding panic.
MutexAttrDrop ==
    /\ attr.state = "live"
    /\ \E code \in {0, EINVAL} :
         /\ attr' = Destroyed
         /\ panicked' = (panicked \/ ErrnoResult(code).tag = "Err")
         /\ last' = Record("MutexAttr::drop", 0, <<"pthread_mutexattr_destroy">>, code,
                           Unwrap(ErrnoResult(code)))
    /\ UNCHANGED <<mutex, pc, holds, foreignUnlock, epoll>>

NextAttr ==
    \/ MutexAttrNew
    \/ MutexAttrDefault
    \/ get_shared
    \/ get_robust
    \/ get_protocol
    \/ \E v \in BOOLEAN : set_shared(v)
    \/ \E v \in BOOLEAN : set_robust(v)
    \/ \E p \in Protocols : set_protocol(p)
    \/ MutexAttrDrop

\* ------------------------------------------------------------------ Mutex

\* What pthread_mutex_init can do with the attribute pointer it is handed.
\* None: a null pointer, the native defaults.  Some(x): `x` is bound by value
\* in the match arm and dropped at the end of that arm, so the pointer taken
\* from `&mut x.0` refers to a destroyed attribute in a dead stack slot when
\* pthread_mutex_init reads it: the values read are whatever that memory
\* holds (possibly the configured ones), or the native call rejects them.
InitOutcomes(given) ==
    IF given
    THEN {[code |-> 0, kind |-> k] : k \in AttrKinds}
         \cup {[code |-> EINVAL, kind |-> AttrDefaults]}
    ELSE {[code |-> 0, kind |-> AttrDefaults],
          [code |-> ENOMEM, kind |-> AttrDefaults]}

\* The native calls of Mutex::new / Mutex::init, in the order they are made.
InitCalls(given) ==
    IF given
    THEN <<"pthread_mutexattr_destroy", "pthread_mutex_init">>
    ELSE <<"pthread_mutex_init">>

\* The result of Mutex::new / Mutex::init from pthread_mutex_init's code.
InitResult(code, value) ==
    IF ErrnoResult(code).tag = "Ok" THEN Ok(value) ELSE ErrnoResult(code)

\* The body shared by Mutex::new (placement "owned", value "Mutex") and
\* Mutex::init (placement "mapped", value "()"); `unwrap` for Mutex::default.
Construct(op, placement, value, given, unwrap) ==
    /\ Configuring
    /\ given => attr.state = "live"
    /\ \E dcode \in (IF given THEN {0, EINVAL} ELSE {0}) :
         IF ErrnoResult(dcode).tag = "Err"
         THEN \* Drop for MutexAttr panics at the end of the match arm
              /\ attr' = Destroyed
              /\ mutex' = mutex
              /\ panicked' = TRUE
              /\ last' = Record(op, 0, <<"pthread_mutexattr_destroy">>, dcode,
                                Panic(dcode))
         ELSE \E o \in InitOutcomes(given) :
              LET r == InitResult(o.code, value) IN
              /\ attr' = IF given THEN Destroyed ELSE attr
              /\ mutex' = IF r.tag = "Ok"
                          THEN [state |-> "Initialized", placement |-> placement,
                                kind |-> o.kind, given |-> given,
                                askedShared |->
                                   (given /\ attr.kind.pshared = PTHREAD_PROCESS_SHARED),
                                owner |-> {}, health |-> "ok"]
                          ELSE mutex
              /\ panicked' = (unwrap /\ r.tag = "Err")
              /\ last' = Record(op, 0, InitCalls(given), o.code,
                                IF unwrap THEN Unwrap(r) ELSE r)
    /\ UNCHANGED <<pc, holds, foreignUnlock, epoll>>

\* Mutex::new(attr)
MutexNew(given) == Construct("Mutex::new", "owned", "Mutex", given, FALSE)

\* Mutex::init(&self, attr) on storage obtained from a shared mapping
MutexInit(given) == Construct("Mutex::init", "mapped", "()", given, FALSE)

\* impl Default for Mutex: Self::new(None).unwrap()
MutexDefault == Construct("Mutex::default", "owned", "Mutex", FALSE, TRUE)

\* Participants of an owned Mutex are threads of one process; those of a
\* Mutex in a shared mapping are spread over two processes (parent, child).
ProcOf(t) == IF mutex.placement = "mapped" THEN t % 2 ELSE 0

\* A futex wake reaches a waiter when the mutex is process-shared or the
\* waiter is in the caller's process.
SameKey(t, u) ==
    mutex.kind.pshared = PTHREAD_PROCESS_SHARED \/ ProcOf(t) = ProcOf(u)

\* A release that wakes nobody.
WakeNobody(u) == pc

\* The participants blocked in pthread_mutex_lock that a release by u wakes.
Wake(u) ==
    [t \in Participants |->
        IF pc[t] = "blocked" /\ SameKey(t, u) THEN "woken" ELSE pc[t]]

Usable == ~panicked /\ mutex.state = "Initialized"

\* lock with every native code reported as Ok(()).
LockResultAlwaysOk(code) == Ok("()")

\* lock with the owner-died code folded into plain success.
LockResultFolded(code) ==
    IF code = EOWNERDEAD THEN Ok("()") ELSE MapDrop(ErrnoResult(code))

\* Mutex::lock: Errno::result(pthread_mutex_lock(..)).map(drop)
LockResult(code) == MapDrop(ErrnoResult(code))

\* try_lock with the EBUSY arm yielding Ok(true).
TryLockResultBusyTrue(code) ==
    LET r == ErrnoResult(code) IN
    IF r.tag = "Ok" THEN Ok("true")
    ELSE IF r = Err(EBUSY) THEN Ok("true")
    ELSE r

\* try_lock without the EBUSY arm: would-block is returned as an error.
TryLockResultNoBusyArm(code) ==
    LET r == ErrnoResult(code) IN
    IF r.tag = "Ok" THEN Ok("true") ELSE r

\* try_lock with the boolean of the Ok arm inverted.
TryLockResultInverted(code) ==
    LET r == ErrnoResult(code) IN
    IF r.tag = "Ok" THEN Ok("false")
    ELSE IF r = Err(EBUSY) THEN Ok("true")
    ELSE r

\* Mutex::try_lock: the match on Errno::result(pthread_mutex_trylock(..))
TryLockResult(code) ==
    LET r == ErrnoResult(code) IN
    IF r.tag = "Ok" THEN Ok("true")
    ELSE IF r = Err(EBUSY) THEN Ok("false")
    ELSE r

\* unlock with the native code ignored.
UnlockResultIgnored(code) == Ok("()")

\* Mutex::unlock: Errno::result(pthread_mutex_unlock(..)).map(drop)
UnlockResult(code) == MapDrop(ErrnoResult(code))

\* pthread_mutex_lock once the lock word can be examined: a mutex left
\* unrecoverable fails, a held one makes the caller sleep, a free one is
\* taken (with EOWNERDEAD when a robust mutex's owner died holding it).
LockAttempt(t, waited) ==
    IF mutex.health = "unrecoverable"
    THEN /\ pc' = [pc EXCEPT ![t] = "idle"]
         /\ last' = [Record("lock", t, <<"pthread_mutex_lock">>, ENOTRECOVERABLE,
                            LockResult(ENOTRECOVERABLE)) EXCEPT !.waited = waited]
         /\ holds' = [holds EXCEPT ![t] =
                         @ \/ LockResult(ENOTRECOVERABLE).tag = "Ok"]
         /\ UNCHANGED mutex
    ELSE IF mutex.owner # {}
    THEN /\ pc' = [pc EXCEPT ![t] = "blocked"]
         /\ UNCHANGED <<mutex, last, holds, epoll>>
    ELSE LET code == IF mutex.health = "owner_died" THEN EOWNERDEAD ELSE 0 IN
         /\ mutex' = [mutex EXCEPT !.owner = {t},
                         !.health = IF code = EOWNERDEAD THEN "inconsistent" ELSE @]
         /\ pc' = [pc EXCEPT ![t] = "idle"]
         /\ last' = [Record("lock", t, <<"pthread_mutex_lock">>, code,
                            LockResult(code)) EXCEPT !.waited = waited]
         /\ holds' = [holds EXCEPT ![t] = @ \/ LockResult(code).tag = "Ok"]

\* pthread_mutex_trylock never sleeps.
TryLockCode(t) ==
    IF mutex.health = "unrecoverable" THEN ENOTRECOVERABLE
    ELSE IF mutex.owner # {} THEN EBUSY
    ELSE IF mutex.health = "owner_died" THEN EOWNERDEAD
    ELSE 0

\* lock wrapping pthread_mutex_trylock instead of pthread_mutex_lock.
LockViaTryLock(t) ==
    /\ Usable
    /\ pc[t] = "idle"
    /\ LET code == TryLockCode(t) IN
       /\ mutex' = IF code \in {0, EOWNERDEAD}
                   THEN [mutex EXCEPT !.owner = {t},
                            !.health = IF code = EOWNERDEAD THEN "inconsistent" ELSE @]
                   ELSE mutex
       /\ last' = Record("lock", t, <<"pthread_mutex_trylock">>, code,
                         LockResult(code))
       /\ holds' = [holds EXCEPT ![t] = @ \/ LockResult(code).tag = "Ok"]
    /\ UNCHANGED <<attr, pc, panicked, foreignUnlock, epoll>>

\* Mutex::lock called by an idle participant.
Lock(t) ==
    /\ Usable
    /\ pc[t] = "idle"
    /\ LockAttempt(t, FALSE)
    /\ UNCHANGED <<attr, panicked, foreignUnlock, epoll>>

\* A woken waiter retries inside pthread_mutex_lock.
LockResume(t) ==
    /\ Usable
    /\ pc[t] = "woken"
    /\ LockAttempt(t, TRUE)
    /\ UNCHANGED <<attr, panicked, foreignUnlock, epoll>>

\* Mutex::try_lock
TryLock(t) ==
    /\ Usable
    /\ pc[t] = "idle"
    /\ LET code == TryLockCode(t)
           r == TryLockResult(code)
       IN
       /\ mutex' = IF code \in {0, EOWNERDEAD}
                   THEN [mutex EXCEPT !.owner = {t},
                            !.health = IF code = EOWNERDEAD THEN "inconsistent" ELSE @]
                   ELSE mutex
       /\ last' = Record("try_lock", t, <<"pthread_mutex_trylock">>, code, r)
       /\ holds' = [holds EXCEPT ![t] = @ \/ r = Ok("true")]
    /\ UNCHANGED <<attr, pc, panicked, foreignUnlock, epoll>>

\* What pthread_mutex_unlock does for caller t: [code, release].
\* The owner releases.  A caller that is not the owner gets EPERM from a
\* robust mutex; a non-robust mutex of the default type does not check its
\* owner and is released (protocol none), or either outcome (inherit /
\* protect, where the check is the implementation's choice).
UnlockOutcomes(t) ==
    IF mutex.owner = {t}
    THEN {[code |-> 0, release |-> TRUE]}
    ELSE IF mutex.kind.robust = PTHREAD_MUTEX_ROBUST
    THEN {[code |-> EPERM, release |-> FALSE]}
    ELSE IF mutex.kind.protocol = PTHREAD_PRIO_NONE
    THEN {[code |-> 0, release |-> TRUE]}
    ELSE {[code |-> 0, release |-> TRUE], [code |-> EPERM, release |-> FALSE]}

\* Mutex::unlock
Unlock(t) ==
    /\ Usable
    /\ pc[t] = "idle"
    /\ \E o \in UnlockOutcomes(t) :
         LET freed == o.release /\ mutex.owner # {} IN
         /\ mutex' = IF freed
                     THEN [mutex EXCEPT !.owner = {},
                              !.health = IF @ = "inconsistent" THEN "unrecoverable" ELSE @]
                     ELSE mutex
         /\ pc' = IF freed THEN Wake(t) ELSE pc
         /\ foreignUnlock' = (foreignUnlock \/ (freed /\ mutex.owner # {t}))
         /\ last' = Record("unlock", t, <<"pthread_mutex_unlock">>, o.code,
                           UnlockResult(o.code))
    /\ holds' = [holds EXCEPT ![t] = FALSE]
    /\ UNCHANGED <<attr, panicked, epoll>>

\* Death of the holder handing back every mutex, robust or not.
DieHandsBack(t) ==
    /\ Usable
    /\ pc[t] = "idle"
    /\ mutex.owner = {t}
    /\ mutex' = [mutex EXCEPT !.owner = {}, !.health = "owner_died"]
    /\ pc' = [Wake(t) EXCEPT ![t] = "dead"]
    /\ UNCHANGED <<attr, holds, last, panicked, foreignUnlock, epoll>>

\* The participant holding the native lock terminates without unlocking.
\* A robust mutex is handed back marked owner-died and its waiters are
\* woken; any other mutex stays locked by the dead owner.
Die(t) ==
    /\ Usable
    /\ pc[t] = "idle"
    /\ mutex.owner = {t}
    /\ IF mutex.kind.robust = PTHREAD_MUTEX_ROBUST
       THEN /\ mutex' = [mutex EXCEPT !.owner = {}, !.health = "owner_died"]
            /\ pc' = [Wake(t) EXCEPT ![t] = "dead"]
       ELSE /\ mutex' = mutex
            /\ pc' = [pc EXCEPT ![t] = "dead"]
    /\ UNCHANGED <<attr, holds, last, panicked, foreignUnlock, epoll>>

\* impl Drop for Mutex that leaves the native lock state to be destroyed again.
MutexDropTwice ==
    /\ Usable
    /\ mutex.placement = "owned"
    /\ \A t \in Participants : pc[t] \in {"idle", "dead"}
    /\ \E code \in (IF mutex.owner # {} THEN {0, EBUSY} ELSE {0}) :
         /\ mutex' = mutex
         /\ panicked' = (ErrnoResult(code).tag = "Err")
         /\ last' = Record("Mutex::drop", 0, <<"pthread_mutex_destroy">>, code,
                           Unwrap(ErrnoResult(code)))
    /\ UNCHANGED <<attr, pc, holds, foreignUnlock, epoll>>

\* impl Drop for Mutex: pthread_mutex_destroy, unwrap() on its result.
\* Destroying a locked mutex is reported (EBUSY) or goes unnoticed.
MutexDrop ==
    /\ Usable
    /\ mutex.placement = "owned"
    /\ \A t \in Participants : pc[t] \in {"idle", "dead"}
    /\ \E code \in (IF mutex.owner # {} THEN {0, EBUSY} ELSE {0}) :
         /\ mutex' = [mutex EXCEPT !.state = "Destroyed"]
         /\ panicked' = (ErrnoResult(code).tag = "Err")
         /\ last' = Record("Mutex::drop", 0, <<"pthread_mutex_destroy">>, code,
                           Unwrap(ErrnoResult(code)))
    /\ UNCHANGED <<attr, pc, holds, foreignUnlock, epoll>>

NextMutex ==
    \/ \E given \in BOOLEAN : MutexNew(given)
    \/ \E given \in BOOLEAN : MutexInit(given)
    \/ MutexDefault
    \/ \E t \in Participants : Lock(t)
    \/ \E t \in Participants : LockResume(t)
    \/ \E t \in Participants : TryLock(t)
    \/ \E t \in Participants : Unlock(t)
    \/ \E t \in Participants : Die(t)
    \/ MutexDrop

\* ------------------------------------------------------------------ Epoll

\* The EpollOp values the interest-set operations are called with.
EpollOps == {"EpollCtlAdd", "EpollCtlDel"}

\* epoll_ctl(2) where deleting a descriptor that is not registered succeeds.
NativeEpollCtlDelAny(interest, op, fd, event) ==
    IF op = "EpollCtlAdd"
    THEN IF ~event THEN [code |-> EFAULT, interest |-> interest]
         ELSE IF fd \in interest THEN [code |-> EEXIST, interest |-> interest]
         ELSE [code |-> 0, interest |-> interest \cup {fd}]
    ELSE [code |-> 0, interest |-> interest \ {fd}]

\* epoll_ctl(2) on an interest set: [code, interest afterwards].  Add reads
\* the event through the pointer first (a null pointer faults), then
\* registers a descriptor that is not yet registered; Del ignores the event
\* and unregisters a registered descriptor.
NativeEpollCtl(interest, op, fd, event) ==
    IF op = "EpollCtlAdd"
    THEN IF ~event THEN [code |-> EFAULT, interest |-> interest]
         ELSE IF fd \in interest THEN [code |-> EEXIST, interest |-> interest]
         ELSE [code |-> 0, interest |-> interest \cup {fd}]
    ELSE IF fd \in interest
         THEN [code |-> 0, interest |-> interest \ {fd}]
         ELSE [code |-> ENOENT, interest |-> interest]

\* The frame of every epoll operation: the pthread objects are not touched.
EpollFrame == UNCHANGED <<attr, mutex, pc, holds, last, panicked, foreignUnlock>>

\* Epoll::new(flags) / epoll_create1(flags): a new instance, nothing registered.
EpollNew ==
    /\ ~epoll.open
    /\ epoll' = [open |-> TRUE, interest |-> {},
                 last |-> EpollRecord("Epoll", "new", 0, FALSE,
                                      <<"epoll_create1">>, 0, Ok("Epoll")),
                 prev |-> epoll.last]
    /\ EpollFrame

\* Epoll::epoll_ctl(op, fd, event): the native call with the event pointer,
\* null when no event is supplied.
EpollCtl(op, fd, event) ==
    /\ epoll.open
    /\ LET o == NativeEpollCtl(epoll.interest, op, fd, event) IN
       epoll' = [epoll EXCEPT
                    !.interest = o.interest,
                    !.last = EpollRecord("Epoll", op, fd, event, <<"epoll_ctl">>,
                                         o.code, MapDrop(ErrnoResult(o.code))),
                    !.prev = epoll.last]
    /\ EpollFrame

\* The deprecated free function epoll_ctl(epfd, op, fd, event): without an
\* event only Del reaches the native call, any other op is refused.
DeprecatedEpollCtl(op, fd, event) ==
    /\ epoll.open
    /\ IF ~event /\ op # "EpollCtlDel"
       THEN epoll' = [epoll EXCEPT
                         !.last = EpollRecord("deprecated", op, fd, event, <<>>,
                                              EINVAL, Err(EINVAL)),
                         !.prev = epoll.last]
       ELSE LET o == NativeEpollCtl(epoll.interest, op, fd, event) IN
            epoll' = [epoll EXCEPT
                         !.interest = o.interest,
                         !.last = EpollRecord("deprecated", op, fd, event,
                                              <<"epoll_ctl">>, o.code,
                                              MapDrop(ErrnoResult(o.code))),
                         !.prev = epoll.last]
    /\ EpollFrame

\* The instance is closed (the test function returns).
EpollClose ==
    /\ epoll.open
    /\ epoll' = [open |-> FALSE, interest |-> {},
                 last |-> EpollRecord("Epoll", "close", 0, FALSE, <<"close">>, 0,
                                      Ok("()")),
                 prev |-> epoll.last]
    /\ EpollFrame

EpollNext ==
    \/ EpollNew
    \/ \E op \in EpollOps, fd \in Fds, event \in BOOLEAN : EpollCtl(op, fd, event)
    \/ \E op \in EpollOps, fd \in Fds, event \in BOOLEAN :
          DeprecatedEpollCtl(op, fd, event)
    \/ EpollClose

\* The interest-set operations on their own.
EpollSpec == Init /\ [][EpollNext]_vars

Next == NextAttr \/ NextMutex


Spec == Init /\ [][Next]_vars

\* The same program under the scheduling the platform provides: a scope that
\* owns an attribute object is left (its drop runs), and a participant woken
\* inside pthread_mutex_lock gets to run.
FairSpec ==
    /\ Spec
    /\ WF_vars(MutexAttrDrop)
    /\ \A t \in Participants : WF_vars(LockResume(t))

\* ------------------------------------------------------------------ claims

\* The participants that got Ok(()) from lock() or Ok(true) from try_lock()
\* and have not called unlock() since.
Holders == {t \in Participants : holds[t]}

\* t's lock() returns in this step (at once, or after sleeping).
LockReturns(t) ==
    pc[t] \in {"idle", "woken"} /\ pc'[t] = "idle" /\ (Lock(t) \/ LockResume(t))

C2_WaiterReturnsOnlyAfterHoldersUnlock ==
    [][\A t \in Participants :
          (LockResume(t) /\ pc'[t] = "idle")
              => \A u \in Participants \ {t} : ~holds[u]]_vars

\* C2 (amended): a lock() called while the native lock is held does not
\* return but sleeps; it returns only once the native lock is free, and
\* every participant that then still has an acquisition not followed by its
\* own unlock() either died while holding a robust mutex or had its lock
\* released by another participant's unlock().
C2_WaiterReturnsOnlyAfterRelease ==
    [][\A t \in Participants :
          /\ (mutex.owner # {} /\ Lock(t))
                => /\ pc'[t] = "blocked"
                   /\ UNCHANGED <<mutex, holds, last>>
          /\ (pc[t] = "woken" /\ pc'[t] = "idle" /\ LockResume(t))
                => /\ mutex.owner = {}
                   /\ \A u \in Participants \ {t} :
                         holds[u] =>
                            \/ foreignUnlock
                            \/ /\ pc[u] = "dead"
                               /\ mutex.kind.robust = PTHREAD_MUTEX_ROBUST]_vars

\* C2 witness: a lock() that slept has returned Ok(()) after the holder's own
\* unlock(), with nobody dead and no foreign unlock.
C2_Witness ==
    /\ last.op = "lock" /\ last.waited /\ last.ret = Ok("()")
    /\ ~foreignUnlock
    /\ \A u \in Participants : pc[u] # "dead"
    /\ Holders = {last.who}

DefaultPathMutex == Usable /\ mutex.placement = "owned" /\ ~mutex.given

\* The native lock is free and not marked owner-died or unrecoverable.
Unlocked == mutex.owner = {} /\ mutex.health = "ok"

\* C4: on a fresh default-path mutex unlock() returns Ok(()) and changes
\* nothing; try_lock() on a default-path mutex that is unlocked returns
\* Ok(true) and acquires; on any unlocked mutex lock() returns Ok(()) at once
\* and acquires, and the holder's unlock() returns Ok(()) and leaves it
\* unlocked.
C4_FreshMutex ==
    [][\A t \in Participants :
          /\ (DefaultPathMutex /\ Unlocked
                 /\ last.op \in {"Mutex::default", "Mutex::new"} /\ Unlock(t))
                => (last'.ret = Ok("()") /\ mutex' = mutex)
          /\ (DefaultPathMutex /\ Unlocked /\ TryLock(t))
                => /\ last'.ret = Ok("true")
                   /\ mutex'.owner = {t}
                   /\ holds'[t]
          /\ (Unlocked /\ Lock(t))
                => /\ last'.op = "lock" /\ last'.who = t
                   /\ last'.ret = Ok("()")
                   /\ ~last'.waited
                   /\ pc'[t] = "idle"
                   /\ mutex'.owner = {t}
          /\ (mutex.owner = {t} /\ mutex.health = "ok" /\ Unlock(t))
                => /\ last'.ret = Ok("()")
                   /\ mutex'.owner = {}
                   /\ mutex'.health = "ok"]_vars

\* C4 witness: a default-path mutex whose first operation, an unlock(),
\* returned Ok(()) and left it unlocked.
C4_Witness ==
    /\ DefaultPathMutex /\ Unlocked
    /\ last.op = "unlock" /\ last.ret = Ok("()")
    /\ ~foreignUnlock
    /\ Holders = {}

\* The mutex lives in a shared mapping and was initialized by
\* init(Some(attr)) with attr's shared flag set.
SharedInit ==
    /\ Usable
    /\ mutex.placement = "mapped"
    /\ mutex.given
    /\ mutex.askedShared

\* C5: for a mutex in a shared mapping initialized once by init(Some(attr))
\* with shared = true, where each process only unlocks what it locked, a
\* lock() returns Ok(()) only when no other participant (of this or the
\* other process) holds the lock: a concurrent lock() completes only after
\* the holder's unlock().
C5_CrossProcessExclusion ==
    [][\A t \in Participants :
          (SharedInit /\ ~foreignUnlock /\ LockReturns(t)
              /\ last'.op = "lock" /\ last'.who = t /\ last'.ret = Ok("()"))
             => /\ mutex.owner = {}
                /\ \A u \in Participants \ {t} : ~holds[u]]_vars

\* C5 witness: the one participant of its process slept in lock() on such a
\* mutex while a participant of the other process held it, and has now got
\* Ok(()).
C5_Witness ==
    /\ SharedInit /\ ~foreignUnlock
    /\ last.op = "lock" /\ last.waited /\ last.ret = Ok("()")
    /\ \A u \in Participants \ {last.who} : ProcOf(u) # ProcOf(last.who)
    /\ \A u \in Participants : pc[u] # "dead"
    /\ Holders = {last.who}

\* C6: after set_shared(v) returns Ok, get_shared() returns Ok(v); after
\* set_robust(v) returns Ok, get_robust() returns Ok(v); after
\* set_protocol(p) returns Ok, get_protocol() returns Ok(p); from every
\* attribute state earlier setter calls can have produced.
C6_AttrRoundTrip ==
    [][/\ \A v \in BOOLEAN :
             (set_shared(v) /\ last'.ret.tag = "Ok")
                => GetSharedResult(attr') = Ok(BoolStr(v))
       /\ \A v \in BOOLEAN :
             (set_robust(v) /\ last'.ret.tag = "Ok")
                => GetRobustResult(attr') = Ok(BoolStr(v))
       /\ \A p \in Protocols :
             (set_protocol(p) /\ last'.ret.tag = "Ok")
                => GetProtocolResult(attr') = Ok(p)
       /\ get_shared => last'.ret = GetSharedResult(attr)
       /\ get_robust => last'.ret = GetRobustResult(attr)
       /\ get_protocol => last'.ret = GetProtocolResult(attr)]_vars

\* C6 witness: after earlier setters made the attribute shared and robust,
\* set_protocol(Protect) returned Ok and the getter reads Protect back.
C6_Witness ==
    /\ attr.state = "live"
    /\ last.op = "set_protocol" /\ last.ret = Ok("()")
    /\ GetProtocolResult(attr) = Ok("Protect")
    /\ GetSharedResult(attr) = Ok("true")
    /\ GetRobustResult(attr) = Ok("true")

\* C7: the object MutexAttr::default() builds reports get_shared() ==
\* Ok(true), and its consistency assertion does not fail.
C7_DefaultAttrIsShared ==
    (last.op = "MutexAttr::default" /\ last.code = 0)
        => /\ GetSharedResult(attr) = Ok("true")
           /\ last.ret.tag # "Panic"

C8_WitnessMutex ==
    /\ last.op = "Mutex::default" /\ last.ret = Ok("Mutex")
    /\ DefaultPathMutex

Wrapped ==
    [op \in {"MutexAttr::new", "get_shared", "set_shared", "get_robust",
             "set_robust", "get_protocol", "set_protocol", "Mutex::new",
             "Mutex::init", "lock", "try_lock", "unlock"} |->
        CASE op = "MutexAttr::new" -> "pthread_mutexattr_init"
          [] op = "get_shared" -> "pthread_mutexattr_getpshared"
          [] op = "set_shared" -> "pthread_mutexattr_setpshared"
          [] op = "get_robust" -> "pthread_mutexattr_getrobust"
          [] op = "set_robust" -> "pthread_mutexattr_setrobust"
          [] op = "get_protocol" -> "pthread_mutexattr_getprotocol"
          [] op = "set_protocol" -> "pthread_mutexattr_setprotocol"
          [] op \in {"Mutex::new", "Mutex::init"} -> "pthread_mutex_init"
          [] op = "lock" -> "pthread_mutex_lock"
          [] op = "try_lock" -> "pthread_mutex_trylock"
          [] op = "unlock" -> "pthread_mutex_unlock"]

\* How often native function f occurs among the calls an operation made.
Calls(f, native) == Cardinality({i \in DOMAIN native : native[i] = f})

LockStateOps == {"lock", "try_lock", "unlock", "Mutex::drop"}

C12_AttrFinalizedOnce ==
    /\ [][/\ (attr.state = "live" /\ MutexAttrDrop)
                => /\ attr'.state = "destroyed"
                   /\ last'.native = <<"pthread_mutexattr_destroy">>
          /\ (attr.state = "live" /\ (MutexNew(TRUE) \/ MutexInit(TRUE)))
                => /\ attr'.state = "destroyed"
                   /\ Calls("pthread_mutexattr_destroy", last'.native) = 1
          /\ (attr.state = "live" /\ attr'.state # "live")
                => /\ attr'.state = "destroyed"
                   /\ Calls("pthread_mutexattr_destroy", last'.native) = 1
          /\ (attr.state # "live" /\ last' # last)
                => Calls("pthread_mutexattr_destroy", last'.native) = 0
          /\ (MutexNew(FALSE) \/ MutexInit(FALSE) \/ MutexDefault)
                => /\ attr' = attr
                   /\ Calls("pthread_mutexattr_destroy", last'.native) = 0]_vars
    /\ (attr.state = "live") ~> (attr.state = "destroyed")

\* C12 witness: Mutex::new(Some(attr)) failed, and the attribute it was given
\* has been finalized by its one pthread_mutexattr_destroy call.
C12_Witness ==
    /\ last.op = "Mutex::new" /\ last.ret.tag = "Err"
    /\ Calls("pthread_mutexattr_destroy", last.native) = 1
    /\ attr.state = "destroyed"
    /\ mutex.state = "Uninitialized"

\* The native teardown functions the two Drop implementations call.
Teardowns == {"pthread_mutexattr_destroy", "pthread_mutex_destroy"}

C15_AttrReadBeforeRelease ==
    (/\ last.op \in {"Mutex::new", "Mutex::init"}
     /\ Calls("pthread_mutexattr_destroy", last.native) > 0
     /\ Calls("pthread_mutex_init", last.native) > 0)
        => /\ last.native = <<"pthread_mutex_init", "pthread_mutexattr_destroy">>
           /\ last.ret.tag = "Ok"
                 => (mutex.kind.pshared = PTHREAD_PROCESS_SHARED
                        <=> mutex.askedShared)

\* The unlock() of another participant, each participant unlocking only what
\* it held, has left the native lock free while w is inside lock().
Released(w) ==
    /\ mutex.state = "Initialized"
    /\ ~foreignUnlock
    /\ last.op = "unlock" /\ last.code = 0 /\ last.who # w
    /\ mutex.owner = {}
    /\ pc[w] \in {"blocked", "woken"}

\* w's lock() has returned Ok(()) after sleeping, and w holds the lock.
AcquiredAfterWait(w) ==
    /\ pc[w] = "idle"
    /\ mutex.owner = {w}
    /\ holds[w]
    /\ last.op = "lock" /\ last.who = w /\ last.waited /\ last.ret = Ok("()")

\* The scenario of one holder and one waiter is left: the program aborted,
\* or some participant locked again before the waiter got the lock.
Interrupted(w) ==
    \/ panicked
    \/ pc[w] \in {"blocked", "woken"} /\ mutex.owner # {}

\* A participant inside lock() leaves it only by its own retry, which either
\* acquires the lock or reports the mutex unrecoverable: nothing else (no
\* timeout, no cancellation) ends the call.
NoEarlyReturn ==
    [][\A t \in Participants :
          /\ (pc[t] = "blocked") => pc'[t] \in {"blocked", "woken"}
          /\ (pc[t] = "woken" /\ pc'[t] = "idle")
                => /\ LockResume(t)
                   /\ mutex'.owner = {t} \/ last'.code = ENOTRECOVERABLE]_vars

\* C16 as stated: whenever a waiter is inside lock() on an Initialized mutex
\* and the holder's unlock() has released the lock, the waiter's lock()
\* eventually returns Ok(()) with the waiter as holder, unless somebody
\* locks again first; and nothing but its own retry ends a blocked lock().
C16_WaiterEventuallyAcquires ==
    /\ NoEarlyReturn
    /\ \A w \in Participants :
          Released(w) ~> (AcquiredAfterWait(w) \/ Interrupted(w))

\* Every participant's release wakes w: all participants are threads of one
\* process, or the native lock state is process-shared.
Reachable(w) == \A t \in Participants : SameKey(w, t)

\* C16 (amended): the same, for a waiter that every participant's wake-up
\* reaches (the participants are threads of one process, or the native lock
\* state is process-shared) and a mutex that is not marked inconsistent.
C16_ReachableWaiterEventuallyAcquires ==
    /\ NoEarlyReturn
    /\ \A w \in Participants :
          (Released(w) /\ mutex.health = "ok" /\ Reachable(w))
             ~> (AcquiredAfterWait(w) \/ Interrupted(w))

\* C16 witness: a participant that slept in lock() while another held the
\* lock has got Ok(()) after the holder's unlock() and is the holder.
C16_Witness ==
    /\ \E w \in Participants : AcquiredAfterWait(w)
    /\ ~foreignUnlock /\ ~panicked
    /\ Holders = {last.who}
    /\ \A u \in Participants : pc[u] = "idle"

\* The native integers of the three Protocol variants.
ProtocolCodes == {ProtocolAsI32(p) : p \in Protocols}

\* C17: Protocol::from(p as i32) = p for each of the three variants, which
\* map to three distinct integers; the integer a live attribute object holds
\* as its protocol is always one of those three, so get_protocol() returns
\* Ok of a variant and never reaches unreachable!().
C17_ProtocolRoundTrip ==
    /\ \A p \in Protocols : ProtocolFrom(ProtocolAsI32(p)) = p
    /\ Cardinality(ProtocolCodes) = 3
    /\ attr.state = "live"
          => /\ attr.kind.protocol \in ProtocolCodes
             /\ GetProtocolResult(attr).val \in Protocols
    /\ last.op = "get_protocol"
          => /\ last.ret.tag = "Ok"
             /\ last.ret.val \in Protocols
             /\ last.ret = Ok(ProtocolFrom(ProtocolAsI32(last.ret.val)))
    /\ (last.op = "set_protocol" /\ last.ret.tag = "Ok" /\ attr.state = "live")
          => ProtocolAsI32(GetProtocolResult(attr).val) = attr.kind.protocol

\* C17 witness: get_protocol() has returned Ok(Protect) from an attribute
\* object that set_protocol(Protect) configured.
C17_Witness ==
    /\ last.op = "get_protocol" /\ last.ret = Ok("Protect")
    /\ attr.state = "live" /\ attr.kind.protocol = PTHREAD_PRIO_PROTECT

\* C18: set_shared changes at most the shared flag, set_robust at most the
\* robust flag, set_protocol at most the protocol; a setter that returns Err
\* changes none of the three; the getters change nothing of the attribute.
C18_SetterFrame ==
    [][/\ (attr.state = "live" /\ \E v \in BOOLEAN : set_shared(v))
             => /\ attr'.state = "live"
                /\ attr'.kind.robust = attr.kind.robust
                /\ attr'.kind.protocol = attr.kind.protocol
                /\ last'.ret.tag = "Err" => attr' = attr
       /\ (attr.state = "live" /\ \E v \in BOOLEAN : set_robust(v))
             => /\ attr'.state = "live"
                /\ attr'.kind.pshared = attr.kind.pshared
                /\ attr'.kind.protocol = attr.kind.protocol
                /\ last'.ret.tag = "Err" => attr' = attr
       /\ (attr.state = "live" /\ \E p \in Protocols : set_protocol(p))
             => /\ attr'.state = "live"
                /\ attr'.kind.pshared = attr.kind.pshared
                /\ attr'.kind.robust = attr.kind.robust
                /\ last'.ret.tag = "Err" => attr' = attr
       /\ (attr.state = "live" /\ (get_shared \/ get_robust \/ get_protocol))
             => attr' = attr]_vars

\* C18 witness: set_robust(true) has returned Ok on an attribute object that
\* was shared with protocol Protect, and both are still so.
C18_Witness ==
    /\ last.op = "set_robust" /\ last.ret = Ok("()")
    /\ attr.state = "live"
    /\ attr.kind = [pshared |-> PTHREAD_PROCESS_SHARED,
                    robust |-> PTHREAD_MUTEX_ROBUST,
                    protocol |-> PTHREAD_PRIO_PROTECT]

\* The step is an interest-set operation through either interface.
EpollCtlStep(op, fd, event) ==
    EpollCtl(op, fd, event) \/ DeprecatedEpollCtl(op, fd, event)

====
